---- MODULE Spec2Model ----
(***************************************************************************)
(* A model of the lispy interpreter: the value type (types.rs), the        *)
(* chained environment (env.rs), the built-in namespace (core_ns.rs) and   *)
(* the reader (compiler.rs) and the evaluator with its special forms       *)
(* (machine.rs).                                                           *)
(*                                                                         *)
(* Numbers are integers here (the programs of the model stay inside the    *)
(* integers, where f64 arithmetic is exact).  The metadata map of a value  *)
(* is always empty in the source and is left out.  A Rust panic (unwrap on *)
(* None or Err, index out of range, arithmetic overflow) aborts the        *)
(* process; it is the outcome status "Panic", which nothing catches.       *)
(***************************************************************************)
EXTENDS Integers, Sequences, FiniteSets, TLC

VARIABLES
    env,         \* LispyMachine.env: the root environment of the machine
    source,      \* the forms handed to the last execute(), <<>> before the first
    result,      \* the outcome of the last eval made by execute()
    halted,      \* the process has panicked (execute() panics on a raised error)
    steps,       \* the number of operations made on the machine so far
    tokens       \* the tokens the lexer gave the last execute(), <<>> where the
                 \* forms read are given instead

vars == <<env, source, result, halted, steps, tokens>>

(***************************************************************************)
(* Bounds of the model.                                                    *)
(***************************************************************************)
MaxSteps == 2

(***************************************************************************)
(* types.rs: the variants of LispyType and their constructors.             *)
(***************************************************************************)
create_nil == [tag |-> "Nil"]

create_bool(value) == [tag |-> "Bool", value |-> value]

create_number(value) == [tag |-> "Number", value |-> value]

create_symbol(value) == [tag |-> "Symbol", value |-> value]

create_keyword(value) == [tag |-> "Keyword", value |-> value]

create_string(value) == [tag |-> "String", value |-> value]

create_list(collection) == [tag |-> "List", collection |-> collection]

\* A hash is kept as the sequence of its <<key, value>> entries, keys distinct.
create_hash(collection) == [tag |-> "Hash", collection |-> collection]

\* The parameters are (message, err_type), in this order.
create_error(message, err_type) ==
    [tag |-> "Error", error_type |-> err_type, message |-> message]

\* arity is <<>> for None and <<n>> for Some(n); func names the native closure.
create_function(arity, func) == [tag |-> "Function", arity |-> arity, func |-> func]

create_lambda(bindings, to_eval, captured, is_macro_flag) ==
    [tag |-> "Lambda", bindings |-> bindings, to_eval |-> to_eval,
     env |-> captured, is_macro |-> is_macro_flag]

is_nil(v) == v.tag = "Nil"

is_bool(v) == v.tag = "Bool"

is_number(v) == v.tag = "Number"

is_symbol(v) == v.tag = "Symbol"

is_string(v) == v.tag = "String"

is_list(v) == v.tag = "List"

is_hash(v) == v.tag = "Hash"

is_error(v) == v.tag = "Error"

is_function(v) == v.tag \in {"Function", "Lambda"}

is_lambda(v) == v.tag = "Lambda"

is_macro(v) == v.tag = "Lambda" /\ v.is_macro

convert_to_macro(v) == [v EXCEPT !.is_macro = TRUE]

is_symbol_containing(v, name) == v.tag = "Symbol" /\ v.value = name

\* is_truthy without the Number arm: every number is truthy.
is_truthy_without_number_arm(v) ==
    CASE v.tag = "Nil" -> FALSE
      [] v.tag = "Bool" -> v.value
      [] OTHER -> TRUE

\* truthiness
is_truthy(v) ==
    CASE v.tag = "Nil" -> FALSE
      [] v.tag = "Bool" -> v.value
      [] v.tag = "Number" -> v.value # 0
      [] OTHER -> TRUE

(***************************************************************************)
(* types.rs: Display.  The list arm takes collection.first().unwrap() and  *)
(* the hash arm slices str[0..str.len() - 2]: both panic on an empty       *)
(* collection.  display_panics says whether formatting v panics.           *)
(***************************************************************************)
RECURSIVE display_panics(_)
display_panics(v) ==
    CASE v.tag = "List" ->
           \/ Len(v.collection) = 0
           \/ \E i \in 1..Len(v.collection) : display_panics(v.collection[i])
      [] v.tag = "Hash" ->
           \/ Len(v.collection) = 0
           \/ \E i \in 1..Len(v.collection) :
                 display_panics(v.collection[i][1]) \/ display_panics(v.collection[i][2])
      [] OTHER -> FALSE

RECURSIVE display(_), display_tail(_, _), display_entries(_, _)
display(v) ==
    CASE v.tag = "Nil" -> "nil"
      [] v.tag = "Bool" -> IF v.value THEN "true" ELSE "false"
      [] v.tag = "Number" -> ToString(v.value)
      [] v.tag = "Symbol" -> "Symbol<" \o v.value \o ">"
      [] v.tag = "Keyword" -> "Keyword<" \o v.value \o ">"
      [] v.tag = "String" -> v.value
      [] v.tag = "List" ->
           "[" \o display(v.collection[1]) \o display_tail(v.collection, 2) \o "]"
      [] v.tag = "Hash" -> "{" \o display_entries(v.collection, 1) \o "}"
      [] v.tag = "Error" -> v.message
      [] v.tag = "Function" -> "#<function>"
      [] OTHER -> "#<lambda-function>"

display_tail(collection, index) ==
    IF index > Len(collection) THEN ""
    ELSE ", " \o display(collection[index]) \o display_tail(collection, index + 1)

display_entries(collection, index) ==
    LET entry == display(collection[index][1]) \o " -> " \o display(collection[index][2])
    IN IF index = Len(collection) THEN entry
       ELSE entry \o ", " \o display_entries(collection, index + 1)

(***************************************************************************)
(* types.rs: PartialEq.  The result is "true" or "false", or "panic" where *)
(* the comparison does not return: the list arm iterates over              *)
(* 0..len() - 1, and for an empty list the usize subtraction overflows (a  *)
(* panic in a debug build; in a release build it wraps and the loop runs   *)
(* 2^64 - 1 times).                                                        *)
(***************************************************************************)
hash_get(collection, key) ==
    IF \E i \in 1..Len(collection) : collection[i][1] = key
    THEN <<collection[CHOOSE i \in 1..Len(collection) : collection[i][1] = key][2]>>
    ELSE <<>>

RECURSIVE eq(_, _), eq_list(_, _, _), eq_hash(_, _, _)
\* eq whose Error arm compares the message as well as the error_type.
eq_with_message(self, other) ==
    CASE self.tag = "Nil" -> IF is_nil(other) THEN "true" ELSE "false"
      [] self.tag \in {"Bool", "Number", "Symbol", "Keyword", "String"} ->
           IF other.tag = self.tag /\ self.value = other.value THEN "true" ELSE "false"
      [] self.tag = "List" ->
           IF ~is_list(other) THEN "false"
           ELSE IF Len(other.collection) # Len(self.collection) THEN "false"
           ELSE IF Len(self.collection) = 0 THEN "panic"
           ELSE eq_list(self.collection, other.collection, 1)
      [] self.tag = "Hash" ->
           IF ~is_hash(other) THEN "false"
           ELSE IF Len(other.collection) # Len(self.collection) THEN "false"
           ELSE eq_hash(self.collection, other.collection, 1)
      [] self.tag = "Error" ->
           IF is_error(other) /\ self.error_type = other.error_type
              /\ self.message = other.message
           THEN "true" ELSE "false"
      [] OTHER -> "false"

eq(self, other) ==
    CASE self.tag = "Nil" -> IF is_nil(other) THEN "true" ELSE "false"
      [] self.tag \in {"Bool", "Number", "Symbol", "Keyword", "String"} ->
           IF other.tag = self.tag /\ self.value = other.value THEN "true" ELSE "false"
      [] self.tag = "List" ->
           IF ~is_list(other) THEN "false"
           ELSE IF Len(other.collection) # Len(self.collection) THEN "false"
           ELSE IF Len(self.collection) = 0 THEN "panic"
           ELSE eq_list(self.collection, other.collection, 1)
      [] self.tag = "Hash" ->
           IF ~is_hash(other) THEN "false"
           ELSE IF Len(other.collection) # Len(self.collection) THEN "false"
           ELSE eq_hash(self.collection, other.collection, 1)
      [] self.tag = "Error" ->
           IF is_error(other) /\ self.error_type = other.error_type
           THEN "true" ELSE "false"
      [] OTHER -> "false"

\* for index in 0..len - 1: the indices 1 .. Len - 1 here, the last one left out.
eq_list(a, b, index) ==
    IF index > Len(a) - 1 THEN "true"
    ELSE LET r == eq(a[index], b[index])
         IN IF r = "true" THEN eq_list(a, b, index + 1) ELSE r

eq_hash(a, b, index) ==
    IF index > Len(a) THEN "true"
    ELSE LET got == hash_get(b, a[index][1])
             r == IF got = <<>> THEN "false" ELSE eq(a[index][2], got[1])
         IN IF r = "true" THEN eq_hash(a, b, index + 1) ELSE r

(***************************************************************************)
(* env.rs: LispyEnv.  store is a function from names to values, parent is  *)
(* <<>> for None and <<e>> for Some(e).  Every environment is held by      *)
(* value: child() and the lambdas keep a copy of the parent.               *)
(***************************************************************************)
empty_store == [k \in {} |-> create_nil]

child(parent) == [store |-> empty_store, parent |-> <<parent>>]

child_lambda(parent) == [store |-> empty_store, parent |-> <<parent>>]

RECURSIVE get_item(_, _)
get_item(self, key) ==
    IF key \in DOMAIN self.store THEN <<self.store[key]>>
    ELSE IF self.parent # <<>> THEN get_item(self.parent[1], key)
    ELSE <<>>

\* set_item with the insert made in the store of the parent where there is one.
set_item_in_parent(self, key, value) ==
    IF self.parent = <<>> THEN [self EXCEPT !.store = (key :> value) @@ @]
    ELSE [self EXCEPT !.parent = <<[self.parent[1] EXCEPT
                                       !.store = (key :> value) @@ @]>>]

set_item(self, key, value) == [self EXCEPT !.store = (key :> value) @@ @]

set(self, key, value) == [self EXCEPT !.store = (key :> value) @@ @]

\* The frame takes the contents of the evaluator's working copy.
modify_with(self, other) == other

\* The stores of a frame and of its ancestors, the nearest first.
RECURSIVE stores(_)
stores(self) ==
    IF self.parent = <<>> THEN <<self.store>>
    ELSE <<self.store>> \o stores(self.parent[1])

(***************************************************************************)
(* types.rs: Add, Sub, Mul, Div and PartialOrd.                            *)
(***************************************************************************)
incorrect_type_math ==
    [tag |-> "Error", error_type |-> "INCORRECT_TYPE",
     message |-> "+ only works with number vars"]

add(self, rhs) ==
    IF is_number(self) /\ is_number(rhs) THEN create_number(self.value + rhs.value)
    ELSE incorrect_type_math

sub(self, rhs) ==
    IF is_number(self) /\ is_number(rhs) THEN create_number(self.value - rhs.value)
    ELSE incorrect_type_math

mul(self, rhs) ==
    IF is_number(self) /\ is_number(rhs) THEN create_number(self.value * rhs.value)
    ELSE incorrect_type_math

\* The programs of the model divide only where the quotient is an integer.
div(self, rhs) ==
    IF is_number(self) /\ is_number(rhs)
    THEN create_number(IF rhs.value = 0 THEN 0 ELSE self.value \div rhs.value)
    ELSE incorrect_type_math

\* partial_cmp: "less", "equal", "greater", "none" (no ordering), or "panic":
\* the Number arm takes other.as_number().unwrap().
partial_cmp(self, other) ==
    IF ~is_number(self) THEN "none"
    ELSE IF ~is_number(other) THEN "panic"
    ELSE IF self.value < other.value THEN "less"
    ELSE IF self.value = other.value THEN "equal"
    ELSE "greater"

(***************************************************************************)
(* Outcomes.  A native function returns Result<LispyType, LispyType>: the  *)
(* status is "Ok" or "Err" (a raised value), or "Panic".                   *)
(***************************************************************************)
Ok(v) == [status |-> "Ok", val |-> v]

Err(v) == [status |-> "Err", val |-> v]

Panic == [status |-> "Panic", val |-> create_nil]

\* types.rs: Countable
len(v) ==
    CASE v.tag = "String" -> create_number(Len(v.value))
      [] v.tag \in {"List", "Hash"} -> create_number(Len(v.collection))
      [] OTHER -> [tag |-> "Error", error_type |-> "INCORRECT_TYPE",
                   message |-> display(v) \o " does not have length"]

\* first, rest and nth of a list value.
first(v) ==
    IF ~is_list(v) THEN Err(create_error("first needs a list", "INCORRECT_TYPE"))
    ELSE IF Len(v.collection) = 0 THEN Ok(create_nil)
    ELSE Ok(v.collection[1])

rest(v) ==
    IF ~is_list(v) THEN Err(create_error("rest needs a list", "INCORRECT_TYPE"))
    ELSE IF Len(v.collection) = 0 THEN Ok(create_list(<<>>))
    ELSE Ok(create_list(Tail(v.collection)))

nth(v, index) ==
    IF ~is_list(v) \/ index >= Len(v.collection)
    THEN Err(create_error("nth needs a list and an index in it", "INCORRECT_TYPE"))
    ELSE Ok(v.collection[index + 1])

(***************************************************************************)
(* lexer.rs: a token is [token |-> its variant] with, for Boolean, String, *)
(* Number, Keyword and Symbol, lexeme |-> what the slice parses to (a      *)
(* String keeps its quotes).  compiler.rs: TokenReader.  index counts     *)
(* from 1 here: data[index] of the source is data[index + 1] of the model  *)
(* and peek() is out of range when index > Len(data).                      *)
(***************************************************************************)
Token(variant) == [token |-> variant]

TokenOf(variant, lexeme) == [token |-> variant, lexeme |-> lexeme]

TokenReader(data) == [index |-> 1, data |-> data]

peek_panics(reader) == reader.index > Len(reader.data)

peek(reader) == reader.data[reader.index]

\* The reader after grab(); the token grabbed is peek(reader).
grab(reader) == [reader EXCEPT !.index = @ + 1]

is_empty(reader) == reader.index > Len(reader.data)

(***************************************************************************)
(* compiler.rs: build_any_form.  An outcome is [status, form, reader];     *)
(* status is "Panic" where the source panics: an index out of range in     *)
(* peek(), the match arm of an unknown token, a hash key that cannot be    *)
(* hashed.                                                                 *)
(***************************************************************************)
Read(form, reader) == [status |-> "Ok", form |-> form, reader |-> reader]

ReadPanic(reader) == [status |-> "Panic", form |-> create_nil, reader |-> reader]

\* types.rs: impl Hash for LispyType
hash_panics(key) ==
    key.tag \notin {"Nil", "Bool", "Number", "Symbol", "Keyword", "String"}

\* HashMap::insert: the value of an equal key is replaced.
insert(collection, key, value) ==
    IF \E i \in 1..Len(collection) : collection[i][1] = key
    THEN [i \in 1..Len(collection) |->
             IF collection[i][1] = key THEN <<key, value>> ELSE collection[i]]
    ELSE Append(collection, <<key, value>>)

RECURSIVE build_any_form(_), build_list(_, _), build_hash(_, _)
build_any_form(reader) ==
    IF peek_panics(reader) THEN ReadPanic(reader)
    ELSE LET on_token(token) ==
                 CASE token.token = "Nil" -> Read(create_nil, grab(reader))
                   [] token.token = "Boolean" -> Read(create_bool(token.lexeme), grab(reader))
                   [] token.token = "String" ->
                        Read(create_string(SubSeq(token.lexeme, 2, Len(token.lexeme) - 1)),
                             grab(reader))
                   [] token.token = "Number" -> Read(create_number(token.lexeme), grab(reader))
                   [] token.token = "Keyword" -> Read(create_keyword(token.lexeme), grab(reader))
                   [] token.token = "Symbol" -> Read(create_symbol(token.lexeme), grab(reader))
                   [] token.token = "ListStart" -> build_list(grab(reader), <<>>)
                   [] token.token = "HashStart" -> build_hash(grab(reader), <<>>)
                   [] OTHER -> ReadPanic(reader)
         IN on_token(peek(reader))

\* while reader.peek() != LexerToken::ListEnd { collection.push(...) }
build_list(reader, collection) ==
    IF peek_panics(reader) THEN ReadPanic(reader)
    ELSE IF peek(reader).token = "ListEnd"
    THEN Read(create_list(collection), grab(reader))
    ELSE LET on_form(form) ==
                 IF form.status = "Panic" THEN form
                 ELSE build_list(form.reader, Append(collection, form.form))
         IN on_form(build_any_form(reader))

\* while reader.peek() != LexerToken::HashEnd { key; value; insert }
build_hash(reader, collection) ==
    IF peek_panics(reader) THEN ReadPanic(reader)
    ELSE IF peek(reader).token = "HashEnd"
    THEN Read(create_hash(collection), grab(reader))
    ELSE LET on_value(key, value) ==
                 IF value.status = "Panic" THEN value
                 ELSE IF hash_panics(key.form) THEN ReadPanic(value.reader)
                 ELSE build_hash(value.reader,
                                 insert(collection, key.form, value.form))
             on_key(key) ==
                 IF key.status = "Panic" THEN key
                 ELSE on_value(key, build_any_form(key.reader))
         IN on_key(build_any_form(reader))

\* compiler.rs: build_from_tokens.  An outcome is [status, ast].
RECURSIVE build_from_tokens_loop(_, _)
build_from_tokens_loop(reader, ast) ==
    IF is_empty(reader) THEN [status |-> "Ok", ast |-> ast]
    ELSE LET on_form(form) ==
                 IF form.status = "Panic" THEN [status |-> "Panic", ast |-> <<>>]
                 ELSE build_from_tokens_loop(form.reader, Append(ast, form.form))
         IN on_form(build_any_form(reader))

build_from_tokens(reader) == build_from_tokens_loop(reader, <<>>)

(***************************************************************************)
(* The lexer works on text.  The texts the model knows, with the tokens    *)
(* LexerToken::lexer yields for each, and the files slurp finds.           *)
(***************************************************************************)
SourceTexts == ("" :> <<>>) @@ ("nil" :> <<Token("Nil")>>)

\* let tokens = LexerToken::lexer(source_code).collect();
compile_source_code_to_ast(source_code) ==
    build_from_tokens(TokenReader(IF source_code \in DOMAIN SourceTexts
                                  THEN SourceTexts[source_code] ELSE <<>>))

Files == ("demo.lispy" :> "nil")

RECURSIVE flatten(_, _)
flatten(args, index) ==
    IF index > Len(args) THEN <<>>
    ELSE args[index].collection \o flatten(args, index + 1)

(***************************************************************************)
(* core_ns.rs: the native closures, named by what their body computes.     *)
(* args is 1-based here: args[0] of the source is args[1].                 *)
(***************************************************************************)
call_native(func, args) ==
    CASE func = "add" -> Ok(add(args[1], args[2]))
      [] func = "sub" -> Ok(sub(args[1], args[2]))
      [] func = "mul" -> Ok(mul(args[1], args[2]))
      [] func = "div" -> Ok(div(args[1], args[2]))
      [] func \in {"println", "print"} ->
           IF \E i \in 1..Len(args) : display_panics(args[i]) THEN Panic
           ELSE Ok(create_nil)
      [] func = "list" -> Ok(create_list(args))
      [] func = "count" ->
           LET res == len(args[1]) IN IF is_error(res) THEN Err(res) ELSE Ok(res)
      [] func = "cons" ->
           IF Len(args) = 0 THEN Panic
           ELSE IF ~is_list(args[Len(args)]) THEN Panic
           ELSE Ok(create_list(SubSeq(args, 1, Len(args) - 1)
                               \o args[Len(args)].collection))
      [] func = "concat" ->
           IF \E i \in 1..Len(args) : ~is_list(args[i]) THEN Panic
           ELSE Ok(create_list(flatten(args, 1)))
      [] func = "first" -> first(args[1])
      [] func = "rest" -> rest(args[1])
      [] func = "nth" ->
           IF ~is_number(args[2]) THEN Panic
           ELSE nth(args[1], IF args[2].value < 0 THEN 0 ELSE args[2].value)
      [] func = "is_nil" -> Ok(create_bool(is_nil(args[1])))
      [] func = "is_bool" -> Ok(create_bool(is_bool(args[1])))
      [] func = "is_symbol" -> Ok(create_bool(is_symbol(args[1])))
      [] func = "is_number" -> Ok(create_bool(is_number(args[1])))
      [] func = "is_string" -> Ok(create_bool(is_string(args[1])))
      [] func = "is_hash" -> Ok(create_bool(is_hash(args[1])))
      [] func = "is_function" -> Ok(create_bool(is_function(args[1])))
      [] func = "is_macro" -> Ok(create_bool(is_macro(args[1])))
      [] func = "eq" ->
           LET r == eq(args[1], args[2])
           IN IF r = "panic" THEN Panic ELSE Ok(create_bool(r = "true"))
      [] func \in {"gt", "lt", "ge", "le"} ->
           LET c == partial_cmp(args[1], args[2])
           IN IF c = "panic" THEN Panic
              ELSE Ok(create_bool(
                     CASE func = "gt" -> c = "greater"
                       [] func = "lt" -> c = "less"
                       [] func = "ge" -> c \in {"greater", "equal"}
                       [] OTHER -> c \in {"less", "equal"}))
      [] func = "compile_string" ->
           IF ~is_string(args[1]) THEN Panic
           ELSE LET on_parsed(parsed) ==
                        IF parsed.status = "Panic" THEN Panic
                        ELSE Ok(create_list(<<create_symbol("do")>> \o parsed.ast))
                IN on_parsed(compile_source_code_to_ast(args[1].value))
      [] OTHER -> \* slurp
           IF ~is_string(args[1]) THEN Panic
           ELSE IF args[1].value \notin DOMAIN Files
           THEN Err(create_error("File " \o args[1].value \o " not found",
                                 "SYSTEM_ERROR"))
           ELSE Ok(create_string(Files[args[1].value]))

(***************************************************************************)
(* core_ns.rs: apply_core_ns, the env.set calls in the order of the        *)
(* source: <<name, arity, closure>>.  A later set of a name replaces the   *)
(* earlier one.                                                            *)
(***************************************************************************)
CoreNs ==
    << <<"+", <<2>>, "add">>, <<"-", <<2>>, "sub">>, <<"*", <<2>>, "mul">>,
       <<"/", <<2>>, "div">>,
       <<"println", <<>>, "println">>, <<"print", <<>>, "print">>,
       <<"list", <<>>, "list">>, <<"count", <<1>>, "count">>,
       <<"cons", <<>>, "cons">>, <<"concat", <<>>, "concat">>,
       <<"first", <<1>>, "first">>, <<"rest", <<1>>, "rest">>,
       <<"nth", <<2>>, "nth">>,
       <<"nil?", <<1>>, "is_nil">>, <<"bool?", <<1>>, "is_bool">>,
       <<"symbol?", <<1>>, "is_symbol">>, <<"number?", <<1>>, "is_number">>,
       <<"string?", <<1>>, "is_string">>, <<"string?", <<1>>, "is_string">>,
       <<"list?", <<1>>, "is_bool">>, <<"hash?", <<1>>, "is_hash">>,
       <<"function?", <<1>>, "is_function">>, <<"macro?", <<1>>, "is_macro">>,
       <<"=", <<2>>, "eq">>, <<">", <<2>>, "gt">>, <<"<", <<2>>, "lt">>,
       <<">=", <<2>>, "ge">>, <<"<", <<2>>, "le">>,
       <<"compile-string", <<1>>, "compile_string">>,
       <<"slurp", <<1>>, "slurp">> >>

RECURSIVE apply_core_ns(_, _)
apply_core_ns(e, index) ==
    IF index > Len(CoreNs) THEN e
    ELSE apply_core_ns(set(e, CoreNs[index][1],
                           create_function(CoreNs[index][2], CoreNs[index][3])),
                       index + 1)

root == apply_core_ns([store |-> empty_store, parent |-> <<>>], 1)

(***************************************************************************)
(* types.rs: apply_function and apply_lambda.                              *)
(***************************************************************************)
\* The Debug rendering ({:?}) of a value, as far as the messages need it.
debug(v) == IF v.tag \in {"List", "Hash", "Function", "Lambda"}
            THEN v.tag \o " { .. }" ELSE v.tag \o " { " \o display(v) \o " }"

\* apply_function raising the Error value a closure returns, as an Err.
apply_function_raising_error_values(self, args) ==
    IF self.tag = "Function"
    THEN IF self.arity # <<>> /\ self.arity[1] # Len(args)
         THEN Err([tag |-> "Error", error_type |-> "INCORRECT_ARITY",
                   message |-> "Expected arity " \o ToString(self.arity[1])
                               \o ", received " \o ToString(Len(args))])
         ELSE LET on_called(called) ==
                      IF called.status = "Ok" /\ called.val.tag = "Error"
                      THEN Err(called.val)
                      ELSE called
              IN on_called(call_native(self.func, args))
    ELSE Err([tag |-> "Error", error_type |-> "NOT_A_FUNCTION",
              message |-> debug(self) \o " is not a function"])

apply_function(self, args) ==
    IF self.tag = "Function"
    THEN IF self.arity # <<>> /\ self.arity[1] # Len(args)
         THEN Err([tag |-> "Error", error_type |-> "INCORRECT_ARITY",
                   message |-> "Expected arity " \o ToString(self.arity[1])
                               \o ", received " \o ToString(Len(args))])
         ELSE call_native(self.func, args)
    ELSE Err([tag |-> "Error", error_type |-> "NOT_A_FUNCTION",
              message |-> debug(self) \o " is not a function"])

\* Ok: val is <<to_eval, n_env>>.  The bindings are set in order, and the
\* first one that is no symbol fails the call (formatting it for the message).
RECURSIVE bind_all(_, _, _, _)
bind_all(n_env, bindings, args, i) ==
    IF i > Len(bindings) THEN Ok(n_env)
    ELSE IF ~is_symbol(bindings[i])
    THEN IF display_panics(bindings[i]) THEN Panic
         ELSE Err([tag |-> "Error", error_type |-> "INCORRECT_TYPE",
                   message |-> "Bindings should consist of symbols. Received "
                               \o display(bindings[i])])
    ELSE bind_all(set_item(n_env, bindings[i].value, args[i]), bindings, args, i + 1)

\* apply_lambda with the parameters bound in a child of the frame that
\* encloses the captured one: the innermost captured frame is not read.
apply_lambda_without_captured_frame(self, args) ==
    IF self.tag = "Lambda"
    THEN IF Len(self.bindings) # Len(args)
         THEN Err([tag |-> "Error", error_type |-> "INCORRECT_ARITY",
                   message |-> "Expected arity " \o ToString(Len(self.bindings))
                               \o ", received " \o ToString(Len(args))])
         ELSE LET on_n_env(n_env) ==
                      IF n_env.status = "Ok" THEN Ok(<<self.to_eval, n_env.val>>)
                      ELSE n_env
              IN on_n_env(bind_all(child_lambda(IF self.env.parent = <<>> THEN self.env
                                                ELSE self.env.parent[1]),
                                   self.bindings, args, 1))
    ELSE Err([tag |-> "Error", error_type |-> "NOT_A_FUNCTION",
              message |-> debug(self) \o " is not a function"])

apply_lambda(self, args) ==
    IF self.tag = "Lambda"
    THEN IF Len(self.bindings) # Len(args)
         THEN Err([tag |-> "Error", error_type |-> "INCORRECT_ARITY",
                   message |-> "Expected arity " \o ToString(Len(self.bindings))
                               \o ", received " \o ToString(Len(args))])
         ELSE LET on_n_env(n_env) ==
                      IF n_env.status = "Ok" THEN Ok(<<self.to_eval, n_env.val>>)
                      ELSE n_env
              IN on_n_env(bind_all(child_lambda(self.env), self.bindings, args, 1))
    ELSE Err([tag |-> "Error", error_type |-> "NOT_A_FUNCTION",
              message |-> debug(self) \o " is not a function"])

(***************************************************************************)
(* machine.rs: quasi_quote.  get(0).unwrap() panics on an empty list and   *)
(* get(1).unwrap() on a one-element (unquote) or (splice-unquote) list.    *)
(***************************************************************************)
RECURSIVE quasi_quote_panics(_)
quasi_quote_panics(ast) ==
    /\ is_list(ast)
    /\ \/ Len(ast.collection) = 0
       \/ /\ is_symbol_containing(ast.collection[1], "unquote")
          /\ Len(ast.collection) < 2
       \/ /\ ~is_symbol_containing(ast.collection[1], "unquote")
          /\ \E i \in 1..Len(ast.collection) :
                LET elt == ast.collection[i]
                IN IF is_list(elt)
                   THEN \/ Len(elt.collection) = 0
                        \/ IF is_symbol_containing(elt.collection[1], "splice-unquote")
                           THEN Len(elt.collection) < 2
                           ELSE quasi_quote_panics(elt)
                   ELSE FALSE

RECURSIVE quasi_quote(_), quasi_quote_fold(_, _, _)
quasi_quote(ast) ==
    IF is_list(ast) /\ is_symbol_containing(ast.collection[1], "unquote")
    THEN ast.collection[2]
    ELSE IF is_list(ast)
    THEN create_list(quasi_quote_fold(ast.collection, Len(ast.collection), <<>>))
    ELSE IF is_hash(ast) \/ is_symbol(ast)
    THEN create_list(<<create_symbol("quote"), ast>>)
    ELSE ast

\* for elt in ast.iter().rev(): from the last element down to the first.
quasi_quote_fold(collection, index, acc) ==
    IF index = 0 THEN acc
    ELSE LET elt == collection[index]
         IN quasi_quote_fold(collection, index - 1,
              IF is_list(elt) /\ is_symbol_containing(elt.collection[1], "splice-unquote")
              THEN <<create_symbol("concat"), elt.collection[2], create_list(acc)>>
              ELSE <<create_symbol("cons"), quasi_quote(elt), create_list(acc)>>)

(***************************************************************************)
(* machine.rs: the evaluator.  An outcome is                               *)
(*   [status, val, env, log, depth]                                        *)
(* status and val are the Result (or "Panic"); env is the caller's         *)
(* environment after the call (the callee gets it as &mut); log lists the  *)
(* expressions eval() was invoked on, in order; depth is the greatest      *)
(* number of eval() invocations alive at once.  cx carries the log and     *)
(* depth of the nested calls one invocation has made so far.               *)
(***************************************************************************)
Out(status, val, e, cx) ==
    [status |-> status, val |-> val, env |-> e, log |-> cx.log, depth |-> cx.depth]

NoCx == [log |-> <<>>, depth |-> 0]

Merge(cx, r) ==
    [log |-> cx.log \o r.log,
     depth |-> IF r.depth > cx.depth THEN r.depth ELSE cx.depth]

SpecialForms ==
    {"def!", "defmacro!", "deferror!", "let*", "do", "if", "fn*", "eval", "quote",
     "quasi-quote-expand", "quasi-quote", "macro-expand", "throw", "try*"}

\* is_macro_call that finds no macro: the form is applied as a function call.
is_macro_call_never(ast, e) == FALSE

is_macro_call(ast, e) ==
    IF ~is_list(ast) THEN FALSE
    ELSE IF Len(ast.collection) = 0 THEN FALSE
    ELSE IF ~is_symbol(ast.collection[1]) THEN FALSE
    ELSE LET in_env == get_item(e, ast.collection[1].value)
         IN IF in_env = <<>> THEN FALSE ELSE is_macro(in_env[1])

RECURSIVE eval(_, _), eval_loop(_, _, _, _), eval_ast(_, _), eval_items(_, _, _, _, _),
          eval_entries(_, _, _, _, _), macro_expand(_, _), macro_expand_loop(_, _, _),
          eval_form(_, _, _, _), eval_def(_, _, _, _), eval_defmacro(_, _, _, _),
          eval_let(_, _, _, _), let_bindings(_, _, _, _),
          let_bindings_in_enclosing_scope(_, _, _, _), eval_do(_, _, _, _),
          do_items_past_error(_, _, _, _),
          do_items(_, _, _, _), eval_if(_, _, _, _), eval_eval(_, _, _, _),
          eval_throw(_, _, _, _), eval_try(_, _, _, _), catch_clauses(_, _, _, _, _, _),
          eval_apply(_, _, _, _)

\* In the operators below, LET on_v(v) == ... IN on_v(call) reads as
\* let v = call; ...: the code after the call, given what it returned.

eval_ast(expression, e) ==
    CASE expression.tag = "Symbol" ->
           LET got == get_item(e, expression.value)
           IN IF got # <<>> THEN Out("Ok", got[1], e, NoCx)
              ELSE Out("Err",
                       [tag |-> "Error", error_type |-> "NOT_DEFINED",
                        message |-> "Symbol " \o expression.value \o " is not defined"],
                       e, NoCx)
      [] expression.tag = "List" -> eval_items(expression.collection, 1, e, <<>>, NoCx)
      [] expression.tag = "Hash" -> eval_entries(expression.collection, 1, e, <<>>, NoCx)
      [] OTHER -> Out("Ok", expression, e, NoCx)

eval_items(items, index, e, collection, cx) ==
    IF index > Len(items) THEN Out("Ok", create_list(collection), e, cx)
    ELSE LET on_evaluated(evaluated) ==
                 IF evaluated.status # "Ok"
                 THEN Out(evaluated.status, evaluated.val, evaluated.env,
                          Merge(cx, evaluated))
                 ELSE eval_items(items, index + 1, evaluated.env,
                                 Append(collection, evaluated.val), Merge(cx, evaluated))
         IN on_evaluated(eval(items[index], e))

eval_entries(entries, index, e, collection, cx) ==
    IF index > Len(entries) THEN Out("Ok", create_hash(collection), e, cx)
    ELSE LET on_evaluated(evaluated) ==
                 IF evaluated.status # "Ok"
                 THEN Out(evaluated.status, evaluated.val, evaluated.env,
                          Merge(cx, evaluated))
                 ELSE eval_entries(entries, index + 1, evaluated.env,
                                   Append(collection, <<entries[index][1], evaluated.val>>),
                                   Merge(cx, evaluated))
         IN on_evaluated(eval(entries[index][2], e))

\* macro_expand works on a clone of the environment: the caller's is returned as is.
macro_expand(ast, passed_env) == macro_expand_loop(ast, passed_env, NoCx)

macro_expand_loop(ast, e, cx) ==
    IF ~is_macro_call(ast, e) THEN Out("Ok", ast, e, cx)
    ELSE LET on_r(r) ==
                 IF r.status # "Ok" THEN Out(r.status, r.val, e, Merge(cx, r))
                 ELSE macro_expand_loop(r.val, e, Merge(cx, r))
             on_parsed(parsed) ==
                 IF parsed.status # "Ok" THEN Out(parsed.status, parsed.val, e, cx)
                 ELSE on_r(eval(parsed.val[1], parsed.val[2]))
         IN on_parsed(apply_lambda(get_item(e, ast.collection[1].value)[1],
                                   Tail(ast.collection)))

\* One invocation of eval: its own entry in the log, and one more level of depth.
eval(passed_expression, passed_env) ==
    LET r == eval_loop(passed_expression, passed_env, passed_env,
                       [log |-> <<passed_expression>>, depth |-> 0])
    IN [r EXCEPT !.depth = @ + 1]

\* One iteration of the loop: e is the local env, penv the caller's passed_env.
eval_loop(expression, e, penv, cx) ==
    IF ~is_list(expression)
    THEN LET on_r(r) == Out(r.status, r.val, penv, Merge(cx, r))
         IN on_r(eval_ast(expression, e))
    ELSE LET on_m(m) ==
                 IF m.status # "Ok" THEN Out(m.status, m.val, penv, Merge(cx, m))
                 ELSE IF ~is_list(m.val)
                 THEN LET on_r(r) == Out(r.status, r.val, penv, Merge(Merge(cx, m), r))
                      IN on_r(eval_ast(m.val, e))
                 ELSE eval_form(m.val.collection, e, penv, Merge(cx, m))
         IN on_m(macro_expand(expression, e))

eval_form(items, e, penv, cx) ==
    IF Len(items) = 0 THEN Out("Ok", create_list(items), penv, cx)
    ELSE IF is_symbol(items[1]) /\ items[1].value \in SpecialForms
    THEN CASE items[1].value = "def!" -> eval_def(items, e, penv, cx)
           [] items[1].value = "defmacro!" -> eval_defmacro(items, e, penv, cx)
           [] items[1].value = "deferror!" ->
                IF Len(items) < 3 THEN Out("Panic", create_nil, penv, cx)
                ELSE IF ~is_symbol(items[2]) \/ ~is_string(items[3])
                THEN Out("Panic", create_nil, penv, cx)
                ELSE Out("Ok", create_nil,
                         modify_with(penv,
                             set_item(e, items[2].value,
                                      create_error(items[3].value, items[2].value))),
                         cx)
           [] items[1].value = "let*" -> eval_let(items, e, penv, cx)
           [] items[1].value = "do" -> eval_do(items, e, penv, cx)
           [] items[1].value = "if" -> eval_if(items, e, penv, cx)
           [] items[1].value = "fn*" ->
                IF Len(items) < 3 THEN Out("Panic", create_nil, penv, cx)
                ELSE IF ~is_list(items[2]) THEN Out("Panic", create_nil, penv, cx)
                ELSE Out("Ok",
                         create_lambda(items[2].collection, items[3], e, FALSE),
                         penv, cx)
           [] items[1].value = "eval" -> eval_eval(items, e, penv, cx)
           [] items[1].value = "quote" ->
                IF Len(items) < 2 THEN Out("Panic", create_nil, penv, cx)
                ELSE Out("Ok", items[2], penv, cx)
           [] items[1].value = "quasi-quote-expand" ->
                IF Len(items) < 2 THEN Out("Panic", create_nil, penv, cx)
                ELSE IF quasi_quote_panics(items[2])
                THEN Out("Panic", create_nil, penv, cx)
                ELSE Out("Ok", quasi_quote(items[2]), penv, cx)
           [] items[1].value = "quasi-quote" ->
                IF Len(items) < 2 THEN Out("Panic", create_nil, penv, cx)
                ELSE IF quasi_quote_panics(items[2])
                THEN Out("Panic", create_nil, penv, cx)
                ELSE eval_loop(quasi_quote(items[2]), e, penv, cx)
           [] items[1].value = "macro-expand" ->
                IF Len(items) < 2 THEN Out("Panic", create_nil, penv, cx)
                ELSE LET on_m(m) == Out(m.status, m.val, penv, Merge(cx, m))
                     IN on_m(macro_expand(items[2], e))
           [] items[1].value = "throw" -> eval_throw(items, e, penv, cx)
           [] OTHER -> eval_try(items, e, penv, cx)
    ELSE eval_apply(items, e, penv, cx)

\* An Err(INCORRECT_TYPE) whose message formats v with Display.
incorrect_type(prefix, v, penv, cx) ==
    IF display_panics(v) THEN Out("Panic", create_nil, penv, cx)
    ELSE Out("Err",
             [tag |-> "Error", error_type |-> "INCORRECT_TYPE",
              message |-> prefix \o display(v)],
             penv, cx)

eval_def(items, e, penv, cx) ==
    IF Len(items) < 3 THEN Out("Panic", create_nil, penv, cx)
    ELSE IF ~is_symbol(items[2])
    THEN incorrect_type("def! first arg must be a symbol. Received: ", items[2], penv, cx)
    ELSE LET on_evaluated(evaluated) ==
                 IF evaluated.status # "Ok"
                 THEN Out(evaluated.status, evaluated.val, penv, Merge(cx, evaluated))
                 ELSE Out("Ok", evaluated.val,
                          modify_with(penv,
                                      set_item(evaluated.env, items[2].value,
                                               evaluated.val)),
                          Merge(cx, evaluated))
         IN on_evaluated(eval(items[3], e))

eval_defmacro(items, e, penv, cx) ==
    IF Len(items) < 3 THEN Out("Panic", create_nil, penv, cx)
    ELSE IF ~is_symbol(items[2])
    THEN incorrect_type("defmacro! first arg must be a symbol. Received: ",
                        items[2], penv, cx)
    ELSE LET on_evaluated(evaluated) ==
                 IF evaluated.status # "Ok"
                 THEN Out(evaluated.status, evaluated.val, penv, Merge(cx, evaluated))
                 ELSE IF ~is_lambda(evaluated.val)
                 THEN incorrect_type("defmacro! second arg must be a lambda. Received: ",
                                     items[2], penv, Merge(cx, evaluated))
                 ELSE Out("Ok", convert_to_macro(evaluated.val),
                          modify_with(penv,
                                      set_item(evaluated.env, items[2].value,
                                               convert_to_macro(evaluated.val))),
                          Merge(cx, evaluated))
         IN on_evaluated(eval(items[3], e))

\* let_bindings with each value evaluated in the enclosing scope, where the
\* earlier keys of the same let* are not bound.
let_bindings_in_enclosing_scope(bindings, index, n_env, cx) ==
    IF index > Len(bindings.collection) THEN Out("Ok", create_nil, n_env, cx)
    ELSE IF ~is_symbol(bindings.collection[index])
    THEN incorrect_type("let* bindings key must be a symbol. Received: ",
                        bindings, n_env, cx)
    ELSE LET on_evaluated(evaluated) ==
                 IF evaluated.status # "Ok"
                 THEN Out(evaluated.status, evaluated.val, n_env, Merge(cx, evaluated))
                 ELSE let_bindings_in_enclosing_scope(
                          bindings, index + 2,
                          set_item(n_env, bindings.collection[index].value, evaluated.val),
                          Merge(cx, evaluated))
         IN on_evaluated(eval(bindings.collection[index + 1], n_env.parent[1]))

eval_let(items, e, penv, cx) ==
    IF Len(items) < 3 THEN Out("Panic", create_nil, penv, cx)
    ELSE IF ~is_list(items[2])
    THEN incorrect_type("let* first arg must be a list of key value pairs. Received: ",
                        items[2], penv, cx)
    ELSE IF Len(items[2].collection) % 2 # 0
    THEN incorrect_type("let* first arg must be a list of key value pairs. Received: ",
                        items[2], penv, cx)
    ELSE LET on_b(b) ==
                 IF b.status # "Ok" THEN Out(b.status, b.val, penv, Merge(cx, b))
                 ELSE eval_loop(items[3], b.env, penv, Merge(cx, b))
         IN on_b(let_bindings(items[2], 1, child(e), NoCx))

\* for index in (0..len).step_by(2): bindings[index] is the key (1-based here).
let_bindings(bindings, index, n_env, cx) ==
    IF index > Len(bindings.collection) THEN Out("Ok", create_nil, n_env, cx)
    ELSE IF ~is_symbol(bindings.collection[index])
    THEN incorrect_type("let* bindings key must be a symbol. Received: ",
                        bindings, n_env, cx)
    ELSE LET on_evaluated(evaluated) ==
                 IF evaluated.status # "Ok"
                 THEN Out(evaluated.status, evaluated.val, evaluated.env,
                          Merge(cx, evaluated))
                 ELSE let_bindings(bindings, index + 2,
                                   set_item(evaluated.env,
                                            bindings.collection[index].value,
                                            evaluated.val),
                                   Merge(cx, evaluated))
         IN on_evaluated(eval(bindings.collection[index + 1], n_env))

\* do_items without the is_err() return: the loop goes on after a raised error.
do_items_past_error(items, index, e, cx) ==
    IF index > Len(items) - 1 THEN Out("Ok", create_nil, e, cx)
    ELSE LET on_evaluated(evaluated) ==
                 IF evaluated.status = "Panic"
                 THEN Out(evaluated.status, evaluated.val, evaluated.env,
                          Merge(cx, evaluated))
                 ELSE do_items_past_error(items, index + 1, evaluated.env,
                                          Merge(cx, evaluated))
         IN on_evaluated(eval(items[index], e))

eval_do(items, e, penv, cx) ==
    IF Len(items) = 1 THEN Out("Ok", create_nil, penv, cx)
    ELSE IF Len(items) = 2 THEN eval_loop(items[2], e, penv, cx)
    ELSE LET on_d(d) ==
                 IF d.status # "Ok" THEN Out(d.status, d.val, penv, Merge(cx, d))
                 ELSE eval_loop(items[Len(items)], d.env, penv, Merge(cx, d))
         IN on_d(do_items(items, 2, e, NoCx))

\* for index in 1..len - 1: every element but the head symbol and the last one.
do_items(items, index, e, cx) ==
    IF index > Len(items) - 1 THEN Out("Ok", create_nil, e, cx)
    ELSE LET on_evaluated(evaluated) ==
                 IF evaluated.status # "Ok"
                 THEN Out(evaluated.status, evaluated.val, evaluated.env,
                          Merge(cx, evaluated))
                 ELSE do_items(items, index + 1, evaluated.env, Merge(cx, evaluated))
         IN on_evaluated(eval(items[index], e))

\* evaluated_condition.unwrap() panics on a raised error; get(2).unwrap() and
\* get(3).unwrap() panic when the chosen branch is not there.
eval_if(items, e, penv, cx) ==
    IF Len(items) < 2 THEN Out("Panic", create_nil, penv, cx)
    ELSE LET on_evaluated_condition(evaluated_condition) ==
                 IF evaluated_condition.status # "Ok"
                 THEN Out("Panic", create_nil, penv, Merge(cx, evaluated_condition))
                 ELSE IF is_truthy(evaluated_condition.val)
                 THEN IF Len(items) < 3
                      THEN Out("Panic", create_nil, penv, Merge(cx, evaluated_condition))
                      ELSE eval_loop(items[3], evaluated_condition.env, penv,
                                     Merge(cx, evaluated_condition))
                 ELSE IF Len(items) < 4
                      THEN Out("Panic", create_nil, penv, Merge(cx, evaluated_condition))
                      ELSE eval_loop(items[4], evaluated_condition.env, penv,
                                     Merge(cx, evaluated_condition))
         IN on_evaluated_condition(eval(items[2], e))

eval_eval(items, e, penv, cx) ==
    IF Len(items) < 2 THEN Out("Panic", create_nil, penv, cx)
    ELSE LET on_evaluated_expr(evaluated_expr) ==
                 IF evaluated_expr.status # "Ok"
                 THEN Out(evaluated_expr.status, evaluated_expr.val, penv,
                          Merge(cx, evaluated_expr))
                 ELSE eval_loop(evaluated_expr.val, evaluated_expr.env, penv,
                                Merge(cx, evaluated_expr))
         IN on_evaluated_expr(eval(items[2], e))

eval_throw(items, e, penv, cx) ==
    IF Len(items) < 2 THEN Out("Panic", create_nil, penv, cx)
    ELSE LET on_error(error) ==
                 IF error.status = "Panic"
                 THEN Out("Panic", create_nil, penv, Merge(cx, error))
                 ELSE Out("Err", error.val, penv, Merge(cx, error))
         IN on_error(eval_ast(items[2], e))

\* eval_try without the is_ok() return: the clauses are walked for every result.
eval_try_without_ok_return(items, e, penv, cx) ==
    IF Len(items) < 2 THEN Out("Panic", create_nil, penv, cx)
    ELSE LET on_result(result_) ==
                 IF result_.status = "Panic"
                 THEN Out(result_.status, result_.val, penv, Merge(cx, result_))
                 ELSE catch_clauses(items, 3, result_.val, result_.env, penv,
                                    Merge(cx, result_))
         IN on_result(eval(items[2], e))

eval_try(items, e, penv, cx) ==
    IF Len(items) < 2 THEN Out("Panic", create_nil, penv, cx)
    ELSE LET on_result(result_) ==
                 IF result_.status # "Err"
                 THEN Out(result_.status, result_.val, penv, Merge(cx, result_))
                 ELSE catch_clauses(items, 3, result_.val, result_.env, penv,
                                    Merge(cx, result_))
         IN on_result(eval(items[2], e))

\* for catch_clause in catch_clauses.iter(): the elements from the third on.
catch_clauses(items, index, raised, e, penv, cx) ==
    IF index > Len(items) THEN Out("Err", raised, penv, cx)
    ELSE IF ~is_list(items[index]) THEN Out("Panic", create_nil, penv, cx)
    ELSE IF Len(items[index].collection) < 2 THEN Out("Panic", create_nil, penv, cx)
    ELSE LET on_handled(handled, ccx) ==
                 Out(handled.status, handled.val, penv, Merge(ccx, handled))
             on_matches(matches, gotten_error) ==
                 IF matches = "panic"
                 THEN Out("Panic", create_nil, penv, Merge(cx, gotten_error))
                 ELSE IF matches = "true"
                 THEN IF Len(items[index].collection) < 3
                      THEN Out("Panic", create_nil, penv, Merge(cx, gotten_error))
                      ELSE on_handled(eval(items[index].collection[3], gotten_error.env),
                                      Merge(cx, gotten_error))
                 ELSE catch_clauses(items, index + 1, raised, gotten_error.env, penv,
                                    Merge(cx, gotten_error))
             on_gotten_error(gotten_error) ==
                 IF gotten_error.status # "Ok"
                 THEN Out(gotten_error.status, gotten_error.val, penv,
                          Merge(cx, gotten_error))
                 ELSE on_matches(eq(gotten_error.val, raised), gotten_error)
         IN on_gotten_error(eval_ast(items[index].collection[2], e))

\* eval_apply with the lambda body handed to a new eval invocation.
eval_apply_by_nested_eval(items, e, penv, cx) ==
    LET on_called(called, ccx) == Out(called.status, called.val, penv, ccx)
        on_body(body, ccx) == Out(body.status, body.val, penv, Merge(ccx, body))
        on_parse(parse, ccx) ==
            IF parse.status # "Ok" THEN Out(parse.status, parse.val, penv, ccx)
            ELSE on_body(eval(parse.val[1], parse.val[2]), ccx)
        on_evaluated(evaluated) ==
            IF evaluated.status # "Ok"
            THEN Out(evaluated.status, evaluated.val, penv, Merge(cx, evaluated))
            ELSE IF is_function(evaluated.val.collection[1])
                    /\ ~is_lambda(evaluated.val.collection[1])
            THEN on_called(apply_function(evaluated.val.collection[1],
                                          Tail(evaluated.val.collection)),
                           Merge(cx, evaluated))
            ELSE on_parse(apply_lambda(evaluated.val.collection[1],
                                       Tail(evaluated.val.collection)),
                          Merge(cx, evaluated))
    IN on_evaluated(eval_ast(create_list(items), e))

\* evaluated is the evaluated list: its head is called with the rest.
eval_apply(items, e, penv, cx) ==
    LET on_called(called, ccx) == Out(called.status, called.val, penv, ccx)
        on_parse(parse, ccx) ==
            IF parse.status # "Ok" THEN Out(parse.status, parse.val, penv, ccx)
            ELSE eval_loop(parse.val[1], parse.val[2], penv, ccx)
        on_evaluated(evaluated) ==
            IF evaluated.status # "Ok"
            THEN Out(evaluated.status, evaluated.val, penv, Merge(cx, evaluated))
            ELSE IF is_function(evaluated.val.collection[1])
                    /\ ~is_lambda(evaluated.val.collection[1])
            THEN on_called(apply_function(evaluated.val.collection[1],
                                          Tail(evaluated.val.collection)),
                           Merge(cx, evaluated))
            ELSE on_parse(apply_lambda(evaluated.val.collection[1],
                                       Tail(evaluated.val.collection)),
                          Merge(cx, evaluated))
    IN on_evaluated(eval_ast(create_list(items), e))

(***************************************************************************)
(* The programs handed to execute(): each is the sequence of forms the     *)
(* reader produces for one source text.                                    *)
(***************************************************************************)
Sym(name) == create_symbol(name)

Num(n) == create_number(n)

Str(text) == create_string(text)

Lst(items) == create_list(items)

\* Forms whose values cover the variants: the conditions of the if programs.
CondForms ==
    << create_nil, create_bool(FALSE), create_bool(TRUE), Num(0), Num(1), Num(-1),
       Str(""), Str("a"), Lst(<<>>), Lst(<<Sym("list")>>), Lst(<<Sym("list"), Num(0)>>),
       create_hash(<<>>), create_keyword(":k"), Lst(<<Sym("quote"), Sym("x")>>),
       Sym("+"), Lst(<<Sym("fn*"), Lst(<<>>), Num(0)>>),
       Lst(<<Sym("+"), Num(1), Str("a")>>), Lst(<<Sym("-"), Num(1), Num(1)>>) >>

IfForm(cond) == Lst(<<Sym("if"), cond, Str("then"), Str("else")>>)

\* (def! f (fn* (n acc) (if (= n 0) acc (f (- n 1) (+ acc n))))) (f n 0)
SumProgram(n) ==
    << Lst(<<Sym("def!"), Sym("f"),
             Lst(<<Sym("fn*"), Lst(<<Sym("n"), Sym("acc")>>),
                   Lst(<<Sym("if"), Lst(<<Sym("="), Sym("n"), Num(0)>>), Sym("acc"),
                         Lst(<<Sym("f"), Lst(<<Sym("-"), Sym("n"), Num(1)>>),
                               Lst(<<Sym("+"), Sym("acc"), Sym("n")>>)>>)>>)>>)>>),
       Lst(<<Sym("f"), Num(n), Num(0)>>) >>

SumArgs == {0, 1, 3, 1000}

ThrowForm(f) == Lst(<<Sym("throw"), f>>)

CatchForm(template, handler) == Lst(<<Sym("catch*"), template, handler>>)

TryForm(body, clauses) == Lst(<<Sym("try*"), body>> \o clauses)

\* (deferror! ErrA "m1") (def! ErrB ErrA) (deferror! ErrA "m2") (deferror! ErrC "m1")
ErrDefs ==
    << Lst(<<Sym("deferror!"), Sym("ErrA"), Str("m1")>>),
       Lst(<<Sym("def!"), Sym("ErrB"), Sym("ErrA")>>),
       Lst(<<Sym("deferror!"), Sym("ErrA"), Str("m2")>>),
       Lst(<<Sym("deferror!"), Sym("ErrC"), Str("m1")>>) >>

ErrNames == {"ErrA", "ErrB", "ErrC"}

\* ... (try* (throw x) (catch* y "caught"))
MatchProgram(x, y) ==
    ErrDefs \o <<TryForm(ThrowForm(Sym(x)), <<CatchForm(Sym(y), Str("caught"))>>)>>

\* (try* (throw (list "oops")) (catch* e e))
OopsProgram ==
    <<TryForm(ThrowForm(Lst(<<Sym("list"), Str("oops")>>)),
              <<CatchForm(Sym("e"), Sym("e"))>>)>>

\* ... (try* (throw ErrB) (catch* ErrA ErrA))
RebindProgram ==
    ErrDefs \o <<TryForm(ThrowForm(Sym("ErrB")), <<CatchForm(Sym("ErrA"), Sym("ErrA"))>>)>>

\* try* forms whose body raises "boom" and whose clauses do not match it.
NoMatchClauses ==
    { <<>>,
      <<CatchForm(Str("other"), Num(1))>>,
      <<CatchForm(Num(0), Num(1)), CatchForm(create_nil, Num(2))>>,
      <<CatchForm(Sym("unbound"), Num(1))>>,
      <<CatchForm(Str("other"), Num(1)), CatchForm(Sym("unbound"), Num(2))>> }

\* try* forms whose body returns normally.
QuietBodies ==
    { Num(7), Str("a"), create_nil, Lst(<<Sym("+"), Num(1), Num(2)>>),
      Lst(<<Sym("list"), Num(1)>>), Lst(<<Sym("def!"), Sym("z"), Num(1)>>),
      Lst(<<Sym("if"), create_bool(TRUE), Num(1), Num(2)>>) }

QuietClauses ==
    { <<>>,
      <<CatchForm(Sym("unbound"), Lst(<<Sym("def!"), Sym("handled"), Num(1)>>))>>,
      <<CatchForm(Lst(<<Sym("list"), Num(1)>>), Str("caught")),
        CatchForm(Num(7), Lst(<<Sym("throw"), Str("again")>>))>> }

\* (throw f)
ThrowArgs ==
    { Str("boom"), Num(1), create_nil, Sym("nope"), Lst(<<Sym("list"), Str("oops")>>),
      Lst(<<Sym("+"), Num(1), Num(2)>>), Lst(<<Sym("quote"), Sym("x")>>),
      Lst(<<Sym("nope"), Num(1)>>) }

ThrowProgram(f) == <<ThrowForm(f)>>

\* (deferror! MyErr "KIND")
DefErrorProgram == <<Lst(<<Sym("deferror!"), Sym("MyErr"), Str("KIND")>>)>>

\* def! alone, as a non-final and as the final element of a do form.
DefForm(s, n) == Lst(<<Sym("def!"), Sym(s), Num(n)>>)

DefAloneProgram == <<DefForm("a", 1)>>

DefInDoProgram == <<Lst(<<Sym("do"), DefForm("b", 1), Num(5)>>)>>

DefLastInDoProgram == <<Lst(<<Sym("do"), Num(5), DefForm("c", 1)>>)>>

\* lispy_std/core.lispy, the prelude new() evaluates: not, empty?, load-file.
Prelude ==
    << Lst(<<Sym("def!"), Sym("not"),
             Lst(<<Sym("fn*"), Lst(<<Sym("a")>>),
                   Lst(<<Sym("if"), Sym("a"), create_bool(FALSE), create_bool(TRUE)>>)>>)>>),
       Lst(<<Sym("def!"), Sym("empty?"),
             Lst(<<Sym("fn*"), Lst(<<Sym("l")>>),
                   Lst(<<Sym("="), Lst(<<Sym("count"), Sym("l")>>), Num(0)>>)>>)>>),
       Lst(<<Sym("def!"), Sym("load-file"),
             Lst(<<Sym("fn*"), Lst(<<Sym("f")>>),
                   Lst(<<Sym("eval"),
                         Lst(<<Sym("compile-string"),
                               Lst(<<Sym("slurp"), Sym("f")>>)>>)>>)>>)>>) >>

\* What the host binds with get_env_mut().set(..), and programs that read it.
SetKeys == {"message-to-print", "x"}

SetValues == <<Str("Hello"), Sym("&")>>

\* if forms whose condition raises, alone and inside a try* that names the
\* raised value in a clause.
RaisingConds == { ThrowForm(Str("boom")), Sym("nope"), Lst(<<Sym("count"), Num(1)>>) }

TryIfRaiseProgram ==
    <<TryForm(Lst(<<Sym("if"), ThrowForm(Str("boom")), Num(1), Num(2)>>),
              <<CatchForm(Str("boom"), Str("caught"))>>)>>

\* ((eval (list (quote fn*) (list (quote a) x (quote r)) (quote r))) args...):
\* with x bound by the host to the symbol &, the lambda (fn* (a & r) r).
Quote(form) == Lst(<<Sym("quote"), form>>)

RestArgs == { <<Num(1)>>, <<Num(1), Num(2)>>, <<Num(1), Num(2), Num(3)>> }

RestProgram(args) ==
    <<Lst(<<Lst(<<Sym("eval"),
                  Lst(<<Sym("list"), Quote(Sym("fn*")),
                        Lst(<<Sym("list"), Quote(Sym("a")), Sym("x"), Quote(Sym("r"))>>),
                        Quote(Sym("r"))>>)>>)>>
          \o args)>>

\* (= (list a...) (list b...)) for lists of numbers.
ListForm(numbers) == Lst(<<Sym("list")>> \o [i \in 1..Len(numbers) |-> Num(numbers[i])])

ListArgs == { <<>>, <<1>>, <<2>>, <<1, 2>>, <<1, 3>> }

EqListsProgram(a, b) == <<Lst(<<Sym("="), ListForm(a), ListForm(b)>>)>>

\* (op a b) for the ordering built-ins.
OrderingNames == {"<", "<=", ">", ">="}

OrderingArgs == {1, 2}

OrderingProgram(op, a, b) == <<Lst(<<Sym(op), Num(a), Num(b)>>)>>

\* (list? v)
ListPredArgs ==
    { create_bool(TRUE), create_bool(FALSE), create_nil, Num(0), Str("a"),
      create_keyword(":k"), Quote(Sym("s")), ListForm(<<>>), ListForm(<<1>>),
      create_hash(<<>>), Sym("list") }

ListPredProgram(form) == <<Lst(<<Sym("list?"), form>>)>>

\* (quasi-quote-expand form)
Unquote(form) == Lst(<<Sym("unquote"), form>>)

QuasiQuoteForms ==
    { Num(1), Str("s"), create_nil, Sym("a"), create_hash(<<>>),
      Unquote(Sym("a")), Unquote(Lst(<<>>)),
      Lst(<<Num(1), Num(2)>>),
      Lst(<<Sym("a"), Unquote(Sym("b"))>>),
      Lst(<<Lst(<<Sym("splice-unquote"), Sym("z")>>), Num(1)>>),
      Lst(<<Num(1), Lst(<<Sym("splice-unquote"), Sym("z")>>)>>),
      Lst(<<>>),
      Lst(<<Num(1), Lst(<<>>)>>) }

\* (let* (a v1 b v2) (+ a b)), (let* (a v1 b (+ a 1)) (+ a b)),
\* (def! a 1) (list (let* (a 2) a) a),
\* (let* (p (throw "first") q (throw "second")) p)
LetForm(bindings, body) == Lst(<<Sym("let*"), Lst(bindings), body>>)

LetArgs == {1, 2}

SumForm(a, b) == Lst(<<Sym("+"), a, b>>)

LetSumProgram(v1, v2) ==
    <<LetForm(<<Sym("a"), Num(v1), Sym("b"), Num(v2)>>, SumForm(Sym("a"), Sym("b")))>>

LetSeqProgram(v1) ==
    <<LetForm(<<Sym("a"), Num(v1), Sym("b"), SumForm(Sym("a"), Num(1))>>,
              SumForm(Sym("a"), Sym("b")))>>

LetShadowProgram ==
    <<DefForm("a", 1),
      Lst(<<Sym("list"), LetForm(<<Sym("a"), Num(2)>>, Sym("a")), Sym("a")>>)>>

LetRaiseProgram ==
    <<LetForm(<<Sym("p"), ThrowForm(Str("first")), Sym("q"), ThrowForm(Str("second"))>>,
              Sym("p"))>>

\* (do e1 ... eN) for N = 0..MaxDoLen, each ei the number i or (throw "e")
MaxDoLen == 2

DoBodies ==
    UNION { { [i \in 1..n |-> IF i \in raising THEN ThrowForm(Str("e")) ELSE Num(i)] :
                raising \in SUBSET (1..n) } : n \in 0..MaxDoLen }

DoForm(body) == Lst(<<Sym("do")>> \o body)

\* (def! inc (let* (n 0) (fn* (x) (+ x n)))), (def! n 7), (inc 5): the
\* programs are the forms of ClosureForms at the places of a non-empty set,
\* in their order.
ClosureForms ==
    << Lst(<<Sym("def!"), Sym("inc"),
             LetForm(<<Sym("n"), Num(0)>>,
                     Lst(<<Sym("fn*"), Lst(<<Sym("x")>>), SumForm(Sym("x"), Sym("n"))>>))>>),
       DefForm("n", 7),
       Lst(<<Sym("inc"), Num(5)>>) >>

RECURSIVE ClosureProgram(_, _)
ClosureProgram(places, index) ==
    IF index > Len(ClosureForms) THEN <<>>
    ELSE (IF index \in places THEN <<ClosureForms[index]>> ELSE <<>>)
             \o ClosureProgram(places, index + 1)

ClosurePlaces == (SUBSET (1..Len(ClosureForms))) \ {{}}

\* (defmacro! unless (fn* (c a b) (quasi-quote (if (unquote c) (unquote b)
\* (unquote a))))) (unless c a b), for the argument forms <<c, a, b>>.
UnlessLambda ==
    Lst(<<Sym("fn*"), Lst(<<Sym("c"), Sym("a"), Sym("b")>>),
          Lst(<<Sym("quasi-quote"),
                Lst(<<Sym("if"), Unquote(Sym("c")), Unquote(Sym("b")),
                      Unquote(Sym("a"))>>)>>)>>)

UnlessArgs ==
    { <<create_bool(FALSE), Num(1), ThrowForm(Str("b"))>>,
      <<create_bool(TRUE), ThrowForm(Str("a")), Num(2)>>,
      <<Lst(<<Sym("="), Num(1), Num(2)>>), SumForm(Num(1), Num(2)), Str("b")>>,
      <<create_nil, Lst(<<Sym("list"), Num(1)>>), Num(2)>> }

UnlessProgram(args) ==
    << Lst(<<Sym("defmacro!"), Sym("unless"), UnlessLambda>>),
       Lst(<<Sym("unless")>> \o args) >>

\* (let* (bad (+ 1 "a")) (try* (op x y) (catch* bad "caught"))) for the
\* arguments <<op, x, y>>, x or y no number: the clause names an
\* INCORRECT_TYPE error value, which it matches when one is raised.
MathTypeArgs ==
    { <<op, pair[1], pair[2]>> :
        op \in {"+", "-", "*", "/"},
        pair \in { <<Num(1), Str("a")>>, <<Str("a"), Num(1)>>,
                   <<create_nil, create_bool(TRUE)>> } }

MathTypeProgram(args) ==
    <<LetForm(<<Sym("bad"), SumForm(Num(1), Str("a"))>>,
              TryForm(Lst(<<Sym(args[1]), args[2], args[3]>>),
                      <<CatchForm(Sym("bad"), Str("caught"))>>))>>

\* (L L n) with L = (fn* (self n) (if (= n 0) "done" (self self (- n 1)))):
\* the lambda calls itself in tail position n times.
TailLambda ==
    Lst(<<Sym("fn*"), Lst(<<Sym("self"), Sym("n")>>),
          Lst(<<Sym("if"), Lst(<<Sym("="), Sym("n"), Num(0)>>), Str("done"),
                Lst(<<Sym("self"), Sym("self"),
                      Lst(<<Sym("-"), Sym("n"), Num(1)>>)>>)>>)>>)

TailArgs == {0, 1, 2, 4}

TailProgram(n) == <<Lst(<<TailLambda, TailLambda, Num(n)>>)>>

\* The form put in a tail position: (list "tail").
TailForms == { Lst(<<Sym("list"), Str("tail")>>) }

\* (let* (a 1) t), (do 1 t), (if true t 2), (if false 1 t), (eval (quote t)),
\* (quasi-quote (unquote t)), (try* (throw "e") (catch* "e" t)).
TailPositionForms(t) ==
    { LetForm(<<Sym("a"), Num(1)>>, t),
      DoForm(<<Num(1), t>>),
      Lst(<<Sym("if"), create_bool(TRUE), t, Num(2)>>),
      Lst(<<Sym("if"), create_bool(FALSE), Num(1), t>>),
      Lst(<<Sym("eval"), Quote(t)>>),
      Lst(<<Sym("quasi-quote"), Unquote(t)>>),
      TryForm(ThrowForm(Str("e")), <<CatchForm(Str("e"), t)>>) }

\* (let* (local 1 load-file 2) (def! scoped 2)) and
\* ((fn* (local load-file) (def! scoped 2)) 1 2): a def! as the body of a let*
\* form and of a lambda being applied, where a bound name is one the prelude
\* has defined.
ScopedDefPrograms ==
    { <<LetForm(<<Sym("local"), Num(1), Sym("load-file"), Num(2)>>,
                DefForm("scoped", 2))>>,
      <<Lst(<<Lst(<<Sym("fn*"), Lst(<<Sym("local"), Sym("load-file")>>),
                    DefForm("scoped", 2)>>),
              Num(1), Num(2)>>)>> }

\* Token streams: with an opening bracket that is not closed (the input ends
\* inside a form), with a closing bracket that closes nothing or another kind
\* of bracket, with an odd number of forms in a hash, with an Error token;
\* and streams with none of these.
MalformedTokenStreams ==
    { \* an opening bracket is not closed: the input ends inside a form
      <<Token("ListStart")>>,
      <<Token("ListStart"), TokenOf("Number", 1)>>,
      <<Token("ListStart"), Token("ListStart"), Token("ListEnd")>>,
      <<Token("HashStart")>>,
      <<Token("HashStart"), TokenOf("Number", 1), TokenOf("Number", 1)>>,
      <<TokenOf("Number", 1), Token("ListStart")>>,
      \* a closing bracket closes nothing, or a bracket of the other kind
      <<Token("ListEnd")>>,
      <<Token("HashEnd")>>,
      <<TokenOf("Number", 1), Token("ListEnd")>>,
      <<Token("ListStart"), Token("ListEnd"), Token("ListEnd")>>,
      <<Token("ListStart"), Token("HashEnd")>>,
      <<Token("HashStart"), Token("ListEnd")>>,
      \* an odd number of forms in a hash
      <<Token("HashStart"), TokenOf("Number", 1), Token("HashEnd")>>,
      <<Token("HashStart"), TokenOf("Number", 1), TokenOf("Number", 1),
        TokenOf("Number", 2), Token("HashEnd")>>,
      \* an Error token
      <<Token("Error")>>,
      <<TokenOf("Number", 1), Token("Error")>>,
      <<Token("ListStart"), Token("Error"), Token("ListEnd")>> }

WellFormedTokenStreams ==
    { <<Token("Nil")>>,
      <<TokenOf("Boolean", TRUE)>>,
      <<TokenOf("String", "\"a\"")>>,
      <<TokenOf("Keyword", ":k")>>,
      <<TokenOf("Number", 1), TokenOf("Number", 2)>>,
      <<Token("ListStart"), TokenOf("Symbol", "list"), TokenOf("Number", 1),
        Token("ListEnd")>>,
      <<Token("HashStart"), TokenOf("Number", 1), TokenOf("Number", 1),
        TokenOf("Number", 1), TokenOf("Number", 2), Token("HashEnd")>> }

Programs ==
    { <<IfForm(CondForms[i])>> : i \in 1..Len(CondForms) }
    \cup { <<Lst(<<Sym("if"), CondForms[i], Str("then")>>)>> : i \in 1..Len(CondForms) }
    \cup { SumProgram(n) : n \in SumArgs }
    \cup { MatchProgram(x, y) : x \in ErrNames, y \in ErrNames }
    \cup { OopsProgram, RebindProgram, DefErrorProgram }
    \cup { <<TryForm(ThrowForm(Str("boom")), clauses)>> : clauses \in NoMatchClauses }
    \cup { <<TryForm(body, clauses)>> : body \in QuietBodies, clauses \in QuietClauses }
    \cup { ThrowProgram(f) : f \in ThrowArgs }
    \cup { DefAloneProgram, DefInDoProgram, DefLastInDoProgram }
    \cup { <<Sym(key)>> : key \in SetKeys } \cup { <<IfForm(Sym("x"))>> }
    \cup { <<Lst(<<Sym("if"), cond, Num(1), Num(2)>>)>> : cond \in RaisingConds }
    \cup { TryIfRaiseProgram }
    \cup { RestProgram(args) : args \in RestArgs }
    \cup { EqListsProgram(a, b) : a \in ListArgs, b \in ListArgs }
    \cup { OrderingProgram(op, a, b) :
              op \in OrderingNames, a \in OrderingArgs, b \in OrderingArgs }
    \cup { ListPredProgram(form) : form \in ListPredArgs }
    \cup { <<Lst(<<Sym("quasi-quote-expand"), form>>)>> : form \in QuasiQuoteForms }
    \cup { LetSumProgram(v1, v2) : v1 \in LetArgs, v2 \in LetArgs }
    \cup { LetSeqProgram(v1) : v1 \in LetArgs }
    \cup { LetShadowProgram, LetRaiseProgram }
    \cup { <<DoForm(body)>> : body \in DoBodies }
    \cup { ClosureProgram(places, 1) : places \in ClosurePlaces }
    \cup { UnlessProgram(args) : args \in UnlessArgs }
    \cup { MathTypeProgram(args) : args \in MathTypeArgs }
    \cup { TailProgram(n) : n \in TailArgs }
    \cup { <<form>> : form \in UNION { TailPositionForms(t) : t \in TailForms } }
    \cup ScopedDefPrograms

(***************************************************************************)
(* machine.rs: LispyMachine.  execute() evaluates the forms in order in    *)
(* the machine's environment and panics on the first raised error.         *)
(***************************************************************************)
Stored(r) == [status |-> r.status, val |-> r.val, log |-> r.log, depth |-> r.depth]

NoResult == [status |-> "None", val |-> create_nil, log |-> <<>>, depth |-> 0]

RECURSIVE execute(_, _, _, _)
execute(ast, index, e, last) ==
    IF index > Len(ast) THEN [env |-> e, result |-> last, halted |-> FALSE]
    ELSE LET on_result(result_) ==
                 IF result_.status # "Ok"
                 THEN [env |-> result_.env, result |-> Stored(result_), halted |-> TRUE]
                 ELSE execute(ast, index + 1, result_.env, Stored(result_))
         IN on_result(eval(ast[index], e))

\* LispyMachine::new(): the root environment, then the prelude file.
new == execute(Prelude, 1, root, NoResult).env

Init ==
    /\ env = new
    /\ source = <<>>
    /\ result = NoResult
    /\ halted = FALSE
    /\ steps = 0
    /\ tokens = <<>>

Execute(ast) ==
    /\ ~halted
    /\ steps < MaxSteps
    /\ LET on_done(done) ==
               /\ env' = done.env
               /\ result' = done.result
               /\ halted' = done.halted
       IN on_done(execute(ast, 1, env, NoResult))
    /\ source' = ast
    /\ tokens' = <<>>
    /\ steps' = steps + 1

\* execute(input_code) where the lexer yields data: a panic of the reader ends
\* the process before any form is evaluated.
ExecuteTokens(data) ==
    /\ ~halted
    /\ steps < MaxSteps
    /\ LET on_done(ast, done) ==
               /\ env' = done.env
               /\ result' = done.result
               /\ halted' = done.halted
               /\ source' = ast.ast
           on_ast(ast) ==
               IF ast.status = "Panic"
               THEN /\ env' = env
                    /\ result' = [NoResult EXCEPT !.status = "Panic"]
                    /\ halted' = TRUE
                    /\ source' = <<>>
               ELSE on_done(ast, execute(ast.ast, 1, env, NoResult))
       IN on_ast(build_from_tokens(TokenReader(data)))
    /\ tokens' = data
    /\ steps' = steps + 1

SetBinding(key, value) ==
    /\ ~halted
    /\ steps < MaxSteps
    /\ env' = set(env, key, value)
    /\ steps' = steps + 1
    /\ UNCHANGED <<source, result, halted, tokens>>

Next ==
    \/ \E ast \in Programs : Execute(ast)
    \/ \E key \in SetKeys : \E i \in 1..Len(SetValues) : SetBinding(key, SetValues[i])
    \/ \E data \in MalformedTokenStreams \cup WellFormedTokenStreams : ExecuteTokens(data)

Spec == Init /\ [][Next]_vars

(***************************************************************************)
(* env.rs on its own: a frame made by root(), then child(), set_item() and *)
(* set() applied to it in any order.  env is the frame the calls are made  *)
(* on, and steps the number of child() calls made so far.                  *)
(***************************************************************************)
MaxFrames == 2

EnvInit ==
    /\ env = root
    /\ source = <<>>
    /\ result = NoResult
    /\ halted = FALSE
    /\ steps = 0
    /\ tokens = <<>>

EnvChild ==
    /\ steps < MaxFrames
    /\ env' = child(env)
    /\ steps' = steps + 1
    /\ UNCHANGED <<source, result, halted, tokens>>

EnvSetItem(key, value) ==
    /\ env' = set_item(env, key, value)
    /\ UNCHANGED <<source, result, halted, steps, tokens>>

EnvSet(key, value) ==
    /\ env' = set(env, key, value)
    /\ UNCHANGED <<source, result, halted, steps, tokens>>

EnvNext ==
    \/ EnvChild
    \/ \E key \in SetKeys : \E i \in 1..Len(SetValues) : EnvSetItem(key, SetValues[i])
    \/ \E key \in SetKeys : \E i \in 1..Len(SetValues) : EnvSet(key, SetValues[i])

EnvSpec == EnvInit /\ [][EnvNext]_vars

(***************************************************************************)
(* Properties.  source is the program execute() ran last and result what   *)
(* it returned; the programs named here leave the names they read in env   *)
(* as they found them, so a form of theirs evaluates in env as it did.     *)
(***************************************************************************)

\* C1 (original): is_truthy(v) is false exactly when v is Nil or Bool(false);
\* every other value, Number 0 included, is truthy, so (if c a b) evaluates a
\* unless c evaluates to Nil or Bool(false).
C1_TruthyButNilAndFalse ==
    \A i \in 1..Len(CondForms) :
        source = <<IfForm(CondForms[i])>> =>
            LET c == eval(CondForms[i], env)
                falsy == c.val.tag = "Nil" \/ (c.val.tag = "Bool" /\ ~c.val.value)
            IN c.status = "Ok" =>
                 /\ is_truthy(c.val) = ~falsy
                 /\ result.status = "Ok"
                 /\ result.val = IF falsy THEN Str("else") ELSE Str("then")

\* C1 (amended): is_truthy(v) is false exactly when v is Nil, Bool(false) or
\* the Number 0; every other value (the empty string, the empty list, the
\* empty hash, ...) is truthy, so (if c a b) evaluates b when c evaluates to
\* Nil, Bool(false) or 0, and a otherwise.
C1_TruthyButNilFalseAndZero ==
    \A i \in 1..Len(CondForms) :
        source = <<IfForm(CondForms[i])>> =>
            LET c == eval(CondForms[i], env)
                falsy == \/ c.val.tag = "Nil"
                         \/ (c.val.tag = "Bool" /\ ~c.val.value)
                         \/ (c.val.tag = "Number" /\ c.val.value = 0)
            IN c.status = "Ok" =>
                 /\ is_truthy(c.val) = ~falsy
                 /\ result.status = "Ok"
                 /\ result.val = IF falsy THEN Str("else") ELSE Str("then")

\* (if 0 "then" "else") has run and returned "else".
C1_Witness ==
    /\ source = <<IfForm(Num(0))>>
    /\ result.status = "Ok"
    /\ result.val = Str("else")

\* C2: after (def! f (fn* (n acc) (if (= n 0) acc (f (- n 1) (+ acc n))))),
\* the call (f n 0) resolves f inside the body and returns n (n + 1) / 2:
\* 500500 for n = 1000.
C2_SelfRecursion ==
    \A n \in SumArgs :
        source = SumProgram(n) =>
            /\ result.status = "Ok"
            /\ result.val = Num((n * (n + 1)) \div 2)

\* C3: when the body of a try* raises v and a clause (catch* s handler)
\* matches, the handler runs with s bound to v: the handler s returns v, so
\* (try* (throw (list "oops")) (catch* e e)) returns ("oops"), and
\* (try* (throw ErrB) (catch* ErrA ErrA)) returns the raised ErrB.
C3_HandlerBinding ==
    /\ source = OopsProgram =>
          result.status = "Ok" /\ result.val = create_list(<<Str("oops")>>)
    /\ source = RebindProgram =>
          result.status = "Ok" /\ <<result.val>> = get_item(env, "ErrB")

\* C4: when the body of a try* raises v and no clause matches v, clauses
\* with an unbound template symbol included, the try* raises exactly v.
C4_Reraise ==
    \A clauses \in NoMatchClauses :
        source = <<TryForm(ThrowForm(Str("boom")), clauses)>> =>
            result.status = "Err" /\ result.val = Str("boom")

\* C5: when body returns normally with r, (try* body clauses...) returns r,
\* and no template and no handler is evaluated: the evaluations made are
\* those of the try* form and of the body.
C5_TryIdentity ==
    \A body \in QuietBodies, clauses \in QuietClauses :
        source = <<TryForm(body, clauses)>> =>
            LET r == eval(body, env)
            IN r.status = "Ok" =>
                 /\ result.status = "Ok"
                 /\ result.val = r.val
                 /\ result.log = <<TryForm(body, clauses)>> \o r.log

\* (try* (def! z 1) (catch* unbound (def! handled 1))) has run and returned 1.
C5_Witness ==
    /\ \E clauses \in QuietClauses :
          /\ Len(clauses) = 1
          /\ source = <<TryForm(DefForm("z", 1), clauses)>>
    /\ result.status = "Ok"
    /\ result.val = Num(1)

\* C6: (throw f) raises exactly the value eval(f, env) returns, a call in f
\* applied, and the error evaluating f raises if it raises one.
C6_ThrowEvaluated ==
    \A f \in ThrowArgs :
        source = ThrowProgram(f) =>
            LET r == eval(f, env)
            IN r.status \in {"Ok", "Err"} =>
                 result.status = "Err" /\ result.val = r.val

\* C7: after (deferror! MyErr "KIND"), MyErr is bound to an Error whose
\* error_type is "KIND" and whose message is "MyErr"; the form returns Nil.
C7_DefError ==
    source = DefErrorProgram =>
        /\ result.status = "Ok"
        /\ result.val = create_nil
        /\ get_item(env, "MyErr")
             = <<[tag |-> "Error", error_type |-> "KIND", message |-> "MyErr"]>>

\* C8: two Error values are equal iff their error_type is the same, whatever
\* their messages: (try* (throw x) (catch* y "caught")) returns "caught" when
\* the Errors bound to x and y have the same error_type, and raises the Error
\* bound to x otherwise.
C8_CatchByKind ==
    \A x, y \in ErrNames :
        source = MatchProgram(x, y) =>
            LET raised == get_item(env, x)[1]
                template == get_item(env, y)[1]
            IN /\ is_error(raised) /\ is_error(template)
               /\ (eq(template, raised) = "true")
                     = (template.error_type = raised.error_type)
               /\ IF template.error_type = raised.error_type
                  THEN result.status = "Ok" /\ result.val = Str("caught")
                  ELSE result.status = "Err" /\ result.val = raised

\* ErrB and ErrA have the same error_type and different messages, and
\* (try* (throw ErrB) (catch* ErrA "caught")) has returned "caught"; or ErrB
\* and ErrC have the same message and different error_types, and
\* (try* (throw ErrB) (catch* ErrC "caught")) has raised ErrB.
C8_Witness ==
    \/ /\ source = MatchProgram("ErrB", "ErrA")
       /\ get_item(env, "ErrB")[1].message # get_item(env, "ErrA")[1].message
       /\ result.val = Str("caught")
    \/ /\ source = MatchProgram("ErrB", "ErrC")
       /\ get_item(env, "ErrB")[1].message = get_item(env, "ErrC")[1].message
       /\ result.status = "Err"

\* C9: after (def! s 1) has evaluated in E, alone at the top level or as a
\* non-final or the final element of a do form, a lookup of s in E returns 1,
\* and the def! form returns 1.
C9_DefPersists ==
    /\ source = DefAloneProgram =>
          result.status = "Ok" /\ result.val = Num(1) /\ get_item(env, "a") = <<Num(1)>>
    /\ source = DefInDoProgram =>
          result.status = "Ok" /\ get_item(env, "b") = <<Num(1)>>
    /\ source = DefLastInDoProgram =>
          result.status = "Ok" /\ result.val = Num(1) /\ get_item(env, "c") = <<Num(1)>>

\* C10: (if cond then) with a condition that evaluates to Nil or Bool(false)
\* returns Nil and does not fail.
C10_IfWithoutElse ==
    \A i \in 1..Len(CondForms) :
        source = <<Lst(<<Sym("if"), CondForms[i], Str("then")>>)>> =>
            LET c == eval(CondForms[i], env)
            IN (c.status = "Ok" /\ (c.val.tag = "Nil" \/ (c.val.tag = "Bool" /\ ~c.val.value)))
                 => result.status = "Ok" /\ result.val = create_nil

\* C11: when the condition of (if cond a b) raises v, the if form raises v
\* as an Err result and the evaluator does not abort, so an enclosing try*
\* with a matching clause catches it.
C11_IfRaises ==
    /\ \A cond \in RaisingConds :
          source = <<Lst(<<Sym("if"), cond, Num(1), Num(2)>>)>> =>
              LET c == eval(cond, env)
              IN c.status = "Err" => result.status = "Err" /\ result.val = c.val
    /\ source = TryIfRaiseProgram =>
          result.status = "Ok" /\ result.val = Str("caught")

\* C12: a lambda with the parameter list (a & r), applied to n >= 1
\* arguments, binds a to the first and r to the list of the remaining n - 1
\* (the empty list when n = 1), and does not fail with an arity error.
C12_RestParameters ==
    \A args \in RestArgs :
        source = RestProgram(args) /\ get_item(env, "x") = <<Sym("&")>> =>
            result.status = "Ok" /\ result.val = create_list(Tail(args))

\* C13: two lists are equal iff they have the same length and the elements
\* at every index, the last one included, are equal; two empty lists are
\* equal, and the comparison returns a result for them.
C13_ListEquality ==
    \A a \in ListArgs, b \in ListArgs :
        source = EqListsProgram(a, b) =>
            result.status = "Ok" /\ result.val = create_bool(a = b)

\* C14: <, <=, > and >= are each bound in the root environment to a
\* function of two arguments, and (op a b) is the numeric comparison: (< a b)
\* is true iff a is less than b, so (< a a) is false.
C14_Ordering ==
    \A op \in OrderingNames, a \in OrderingArgs, b \in OrderingArgs :
        source = OrderingProgram(op, a, b) =>
            /\ get_item(env, op) # <<>>
            /\ get_item(env, op)[1].tag = "Function"
            /\ get_item(env, op)[1].arity = <<2>>
            /\ result.status = "Ok"
            /\ result.val = create_bool(CASE op = "<" -> a < b
                                           [] op = "<=" -> a <= b
                                           [] op = ">" -> a > b
                                           [] OTHER -> a >= b)

\* C15: (list? v) returns true iff v is a List, for values of every
\* variant: false for a Bool, true for a list.
C15_ListPredicate ==
    \A form \in ListPredArgs :
        source = ListPredProgram(form) =>
            LET v == eval(form, env)
            IN v.status = "Ok" =>
                 result.status = "Ok" /\ result.val = create_bool(v.val.tag = "List")

\* C16: quasiquote expansion follows the four rules: (unquote y) gives y;
\* any other list is folded from the right from the empty list, a
\* (splice-unquote z) element giving (concat z acc) and any other element
\* (cons expand(elt) acc); a hash or a symbol gives (quote x); anything else
\* gives x.  The empty list, and a list holding an empty list, expand
\* without failure.  (The forms of QuasiQuoteForms nest lists one level, so
\* an element that is a list is an (unquote y) or the empty list.)
C16_QuasiQuoteRules ==
    \A x \in QuasiQuoteForms :
        source = <<Lst(<<Sym("quasi-quote-expand"), x>>)>> =>
            LET has_head(form, name) ==
                    /\ is_list(form)
                    /\ Len(form.collection) > 0
                    /\ form.collection[1] = Sym(name)
                atom(form) ==
                    IF is_hash(form) \/ is_symbol(form)
                    THEN Lst(<<Sym("quote"), form>>)
                    ELSE form
                element(form) ==
                    IF has_head(form, "unquote") THEN form.collection[2]
                    ELSE IF is_list(form) THEN Lst(<<>>)
                    ELSE atom(form)
                n == Len(x.collection)
                folded[k \in 1..(n + 1)] ==
                    IF k = n + 1 THEN <<>>
                    ELSE IF has_head(x.collection[k], "splice-unquote")
                    THEN <<Sym("concat"), x.collection[k].collection[2], Lst(folded[k + 1])>>
                    ELSE <<Sym("cons"), element(x.collection[k]), Lst(folded[k + 1])>>
            IN /\ result.status = "Ok"
               /\ result.val = IF has_head(x, "unquote") THEN x.collection[2]
                               ELSE IF is_list(x) THEN Lst(folded[1])
                               ELSE atom(x)

\* C17: let* binds in sequence in a child scope: each value is evaluated in
\* order with the earlier keys bound, the body with all of them bound, and a
\* key that shadows an outer binding hides it only inside the let*;
\* (let* (a 1 b 2) (+ a b)) returns 3.
C17_LetSequential ==
    /\ \A v1 \in LetArgs, v2 \in LetArgs :
          source = LetSumProgram(v1, v2) =>
              /\ result.status = "Ok"
              /\ result.val = Num(v1 + v2)
              /\ SubSeq(result.log, 1, 3) = <<LetSumProgram(v1, v2)[1], Num(v1), Num(v2)>>
    /\ \A v1 \in LetArgs :
          source = LetSeqProgram(v1) =>
              result.status = "Ok" /\ result.val = Num(v1 + (v1 + 1))
    /\ source = LetShadowProgram =>
          /\ result.status = "Ok"
          /\ result.val = create_list(<<Num(2), Num(1)>>)
    /\ source = LetRaiseProgram =>
          /\ result.status = "Err"
          /\ result.val = eval(ThrowForm(Str("first")), env).val
    /\ source = LetRaiseProgram =>
          \A key \in {"p", "q"} : get_item(env, key) = <<>>

\* (let* (a 2 b (+ a 1)) (+ a b)) has returned 5 where the outer a is 1.
C17_Witness ==
    /\ source = LetSeqProgram(2)
    /\ result.val = Num(5)
    /\ get_item(env, "a") = <<Num(1)>>

C19_ReaderRejects ==
    \A data \in MalformedTokenStreams :
        tokens = data =>
            /\ result.status = "Err"
            /\ result.val.tag = "Error"
            /\ result.val.error_type = "READ_ERROR"
            /\ source = <<>>

\* C20: after (def! inc (let* (n 0) (fn* (x) (+ x n)))), (inc 5) returns 5,
\* also after a later top-level (def! n 7), in the same text or in a later
\* one: the lambda finds n in the let* frame it captured.  inc is bound only
\* by that def!, so a program ending in (inc 5) that left inc bound ran the
\* call with inc defined.
C20_ClosureCapture ==
    \A places \in ClosurePlaces :
        /\ source = ClosureProgram(places, 1)
        /\ Len(ClosureForms) \in places
        /\ get_item(env, "inc") # <<>>
        => /\ result.status = "Ok"
           /\ result.val = Num(5)
           /\ ~halted

\* (inc 5) has returned 5 in a text of its own, with n bound to 7 at top level.
C20_Witness ==
    /\ source = ClosureProgram({Len(ClosureForms)}, 1)
    /\ get_item(env, "n") = <<Num(7)>>
    /\ result.status = "Ok"
    /\ result.val = Num(5)

\* C21: a macro call binds the parameters of the macro's lambda to the
\* argument forms, not evaluated, and evaluates the expansion in the calling
\* environment: (unless c a b) returns what evaluating the form returned by
\* the lambda applied to the quoted arguments returns, that is the value of a
\* when c evaluates to a falsy value and the value of b otherwise, the other
\* form not being evaluated; (unless false 1 2) returns 1.
C21_MacroArguments ==
    \A args \in UnlessArgs :
        source = UnlessProgram(args) =>
            LET applied ==
                    execute(<< Lst(<<Sym("def!"), Sym("unless-fn"), UnlessLambda>>),
                               Lst(<<Sym("eval"),
                                     Lst(<<Sym("unless-fn"), Quote(args[1]),
                                           Quote(args[2]), Quote(args[3])>>)>>) >>,
                            1, env, NoResult).result
                c == eval(args[1], env)
                chosen == eval(IF is_truthy(c.val) THEN args[3] ELSE args[2], env)
            IN /\ result.status = applied.status
               /\ result.val = applied.val
               /\ result.status = "Ok"
               /\ result.val = chosen.val

\* (unless false 1 (throw "b")) has returned 1.
C21_Witness ==
    /\ source = UnlessProgram(<<create_bool(FALSE), Num(1), ThrowForm(Str("b"))>>)
    /\ result.status = "Ok"
    /\ result.val = Num(1)

\* C22: when an argument of +, -, * or / is no Number the built-in returns
\* normally an Error value of kind INCORRECT_TYPE: an enclosing try* runs no
\* catch clause, not even one that names such an error, and returns that
\* Error value.
C22_MathTypeErrorIsValue ==
    \A args \in MathTypeArgs :
        source = MathTypeProgram(args) =>
            /\ result.status = "Ok"
            /\ ~halted
            /\ result.val.tag = "Error"
            /\ result.val.error_type = "INCORRECT_TYPE"
            /\ \A i \in 1..Len(result.log) :
                  result.log[i] \notin {Sym("bad"), Str("caught")}

\* (try* (/ nil true) (catch* bad "caught")) has returned the Error value.
C22_Witness ==
    /\ source = MathTypeProgram(<<"/", create_nil, create_bool(TRUE)>>)
    /\ result.status = "Ok"
    /\ result.val.tag = "Error"

\* C23: when a lambda calls itself in tail position n times, the number of
\* eval invocations alive at once is bounded by a constant independent of n:
\* it is no greater for n calls than for one call.
C23_TailCallDepth ==
    \A n \in TailArgs :
        source = TailProgram(n) =>
            /\ result.status = "Ok"
            /\ result.val = Str("done")
            /\ result.depth <= eval(TailProgram(1)[1], env).depth

\* The lambda has called itself 4 times and returned.
C23_Witness ==
    /\ source = TailProgram(4)
    /\ result.status = "Ok"
    /\ Len(result.log) > 4

\* C24: for the let* body, the last form of do, the chosen branch of if, the
\* result of the eval form, the expansion of quasi-quote and the handler of a
\* matched try* catch clause, the tail form is evaluated by the loop of the
\* invocation that met the enclosing form: eval is not invoked on it.
C24_TailPositionsRewrite ==
    \A t \in TailForms : \A form \in TailPositionForms(t) :
        source = <<form>> =>
            /\ result.status = "Ok"
            /\ result.val = eval(t, env).val
            /\ \A i \in 1..Len(result.log) : result.log[i] # t

\* C25: get_item on a frame returns the binding of the nearest frame, from
\* the frame itself upwards, whose store has the key, and None when no frame
\* has it; a set_item or set on a child frame leaves the frame's parent as it
\* was, so every lookup made on the parent returns what it returned before.
C25_EnvFrames ==
    /\ [](\A key \in SetKeys \cup {"+", "unbound"} :
            LET chain == stores(env)
                having == { i \in 1..Len(chain) : key \in DOMAIN chain[i] }
            IN IF having = {} THEN get_item(env, key) = <<>>
               ELSE \E i \in having :
                       /\ \A j \in having : i <= j
                       /\ get_item(env, key) = <<chain[i][key]>>)
    /\ [][(\E key \in SetKeys : \E i \in 1..Len(SetValues) :
               EnvSetItem(key, SetValues[i]) \/ EnvSet(key, SetValues[i]))
           => /\ env'.parent = env.parent
              /\ \A key \in SetKeys \cup {"+", "unbound"} :
                    env.parent # <<>> =>
                        get_item(env'.parent[1], key) = get_item(env.parent[1], key)]_vars

\* A child frame binds x to & over the parent's "Hello", and has no
\* message-to-print of its own while the parent has one.
C25_Witness ==
    /\ env.parent # <<>>
    /\ get_item(env, "x") = <<Sym("&")>>
    /\ get_item(env.parent[1], "x") = <<Str("Hello")>>
    /\ "message-to-print" \notin DOMAIN env.store
    /\ get_item(env, "message-to-print") = <<Sym("&")>>

\* C26: after a def! evaluated as the body of a let* form or of a lambda being
\* applied, the machine's environment has neither the def!-ed name nor the
\* let*-bound name or lambda parameter, and the names it had before, the
\* built-ins among them, resolve to what they resolved to.
C26_ScopedDefDoesNotLeak ==
    \A program \in ScopedDefPrograms :
        source = program =>
            /\ result.status = "Ok"
            /\ result.val = Num(2)
            /\ get_item(env, "scoped") = <<>>
            /\ get_item(env, "local") = <<>>
            /\ get_item(env, "load-file") = get_item(new, "load-file")
            /\ get_item(env, "+") = get_item(new, "+")

====
